---------------------------- MODULE Spec2Model ----------------------------
(***************************************************************************)
(* Orbit propagators of orbit-tool (src/orbital_dynamics.py) and the       *)
(* Streamlit dashboard that drives them (src/orbit_tool.py).               *)
(*                                                                         *)
(* Numbers.  A Python float is modelled by a value of one of three IEEE    *)
(* classes: finite, infinite, not-a-number.  A finite value is kept exact, *)
(* as an integer combination of basis quantities:                          *)
(*     <<"one", 0, 0>>   the number 1                                      *)
(*     <<"r3", d, 0>>    1 / sqrt(d)^3, the inverse cube of a separation   *)
(*                       whose square is d                                 *)
(*     <<"w",  n, d>>    sqrt(n / d), the mean motion omega                *)
(*     <<"w2", n, d>>    n / d, omega squared                              *)
(* so that an algebraic identity of the force model is an equality of      *)
(* coefficient functions.  Division follows numpy: x / 0 is inf or nan,    *)
(* with a warning and no exception; division of two Python numbers raises  *)
(* ZeroDivisionError.                                                      *)
(***************************************************************************)
EXTENDS Integers, Sequences, FiniteSets, TLC

VARIABLES
    \* one propagator call, as a caller such as the dashboard makes it
    pc, variant, params, initial_conditions, call, raised,
    \* rk_45's loop
    t_n, s_n, h, time_out, solution_out, rejections, accepted, error, deriv,
    \* the dashboard's use of the result
    plot_values,
    \* the dashboard session
    prop_option, widgets, pressed, edits, app_call, app_error

runVars == <<pc, variant, params, initial_conditions, call, raised>>
rkVars == <<t_n, s_n, h, time_out, solution_out, rejections, accepted, error, deriv>>
appVars == <<prop_option, widgets, pressed, edits, app_call, app_error>>
vars == <<runVars, rkVars, plot_values, appVars>>

-----------------------------------------------------------------------------
(* Bounds of the model *)

\* coordinates of the enumerated states lie in -MaxCoord..MaxCoord
MaxCoord == 1
\* the integration span t_final - t_init is at most MaxSpan time quanta
MaxSpan == 3
\* a dashboard session makes at most MaxEdits edits of the sidebar inputs
MaxEdits == 2

-----------------------------------------------------------------------------
(* Floats *)

One == <<"one", 0, 0>>
EmptyC == [k \in {} |-> 0]

Fin(c) == [k |-> "fin", c |-> c, sg |-> 0]
NaN == [k |-> "nan", c |-> EmptyC, sg |-> 0]
Inf(sg) == [k |-> "inf", c |-> EmptyC, sg |-> sg]
Num(n) == Fin(IF n = 0 THEN EmptyC ELSE (One :> n))

IsFinite(a) == a.k = "fin"
IsPlain(a) == a.k = "fin" /\ DOMAIN a.c \subseteq {One}
IntOf(a) == IF One \in DOMAIN a.c THEN a.c[One] ELSE 0
IsZero(a) == a.k = "fin" /\ a.c = EmptyC
SignInt(n) == IF n > 0 THEN 1 ELSE IF n < 0 THEN -1 ELSE 0
Sign(a) == IF a.k = "inf" THEN a.sg ELSE IF IsPlain(a) THEN SignInt(IntOf(a)) ELSE 1

CAt(c, k) == IF k \in DOMAIN c THEN c[k] ELSE 0
CAdd(c1, c2) ==
    LET ks == DOMAIN c1 \cup DOMAIN c2
    IN  [k \in {x \in ks : CAt(c1, x) + CAt(c2, x) # 0} |-> CAt(c1, k) + CAt(c2, k)]
CScale(n, c) == [k \in {x \in DOMAIN c : n * c[x] # 0} |-> n * c[k]]

\* The arithmetic below is written on operands that are already values:
\* Once binds each operand, so an expression is evaluated a single time
\* however often the operation reads it.
Once(S) == CHOOSE x \in S : TRUE

NegV(a) ==
    IF a.k = "nan" THEN NaN
    ELSE IF a.k = "inf" THEN Inf(-a.sg)
    ELSE Fin(CScale(-1, a.c))

AddV(a, b) ==
    IF a.k = "nan" \/ b.k = "nan" THEN NaN
    ELSE IF a.k = "inf" /\ b.k = "inf" THEN (IF a.sg = b.sg THEN a ELSE NaN)
    ELSE IF a.k = "inf" THEN a
    ELSE IF b.k = "inf" THEN b
    ELSE Fin(CAdd(a.c, b.c))

\* a product in which at least one factor is a plain number or not finite
MulV(a, b) ==
    IF a.k = "nan" \/ b.k = "nan" THEN NaN
    ELSE IF a.k = "inf" \/ b.k = "inf"
         THEN (IF IsZero(a) \/ IsZero(b) THEN NaN ELSE Inf(Sign(a) * Sign(b)))
    ELSE IF IsPlain(a) THEN Fin(CScale(IntOf(a), b.c))
    ELSE Fin(CScale(IntOf(b), a.c))

\* x ** 2 of a plain number, or of omega
SquareV(a) ==
    IF a.k = "nan" THEN NaN
    ELSE IF a.k = "inf" THEN Inf(1)
    ELSE IF IsPlain(a) THEN Num(IntOf(a) * IntOf(a))
    ELSE Fin([k \in {<<"w2", x[2], x[3]>> : x \in DOMAIN a.c} |->
                 LET x == CHOOSE y \in DOMAIN a.c : <<"w2", y[2], y[3]>> = k
                 IN  a.c[x] * a.c[x]])

\* a / r ** 3 for r = np.sqrt(d2), a numpy float: no exception on r = 0
DivR3V(a, d2) ==
    IF a.k = "nan" \/ d2.k = "nan" THEN NaN
    ELSE IF d2.k = "inf" THEN (IF a.k = "inf" THEN NaN ELSE Num(0))
    ELSE IF IsZero(d2) THEN (IF IsZero(a) THEN NaN ELSE Inf(Sign(a)))
    ELSE IF a.k = "inf" THEN a
    ELSE Fin(CScale(IntOf(a), <<"r3", IntOf(d2), 0>> :> 1))

VNeg(a) == Once({NegV(x) : x \in {a}})
VAdd(a, b) == Once({AddV(x, y) : x \in {a}, y \in {b}})
VSub(a, b) == VAdd(a, VNeg(b))
VMul(a, b) == Once({MulV(x, y) : x \in {a}, y \in {b}})
VSquare(a) == Once({SquareV(x) : x \in {a}})
VDivR3(a, d2) == Once({DivR3V(x, y) : x \in {a}, y \in {d2}})

-----------------------------------------------------------------------------
(* Force models: the differential_system closures *)

NoStep == [set |-> FALSE, v |-> 0]
Step(x) == [set |-> TRUE, v |-> x]

NumSeq(q) == [i \in 1..Len(q) |-> Num(q[i])]

\* what a closure captures; a variant leaves the fields it has not at zero
Closure(kind, mu_1, mu_2, mu_3, pi_1, pi_2, r_12, omega) ==
    [kind |-> kind, mu_1 |-> mu_1, mu_2 |-> mu_2, mu_3 |-> mu_3,
     pi_1 |-> pi_1, pi_2 |-> pi_2, r_12 |-> r_12, omega |-> omega]

\* pi * r_12 for the mass fraction pi = <<numerator, denominator>>; the
\* enumerated setups keep the quotient whole
FracTimes(pi, r) == Num((pi[1] * r) \div pi[2])

SumSq(a, b, c) == VAdd(VAdd(VSquare(a), VSquare(b)), VSquare(c))

two_body_differential_system_swapped(f, t, s) ==
    LET x_1 == s[1]   y_1 == s[2]   z_1 == s[3]
        vx_1 == s[4]  vy_1 == s[5]  vz_1 == s[6]
        x_2 == s[7]   y_2 == s[8]   z_2 == s[9]
        vx_2 == s[10] vy_2 == s[11] vz_2 == s[12]
        r2 == SumSq(VSub(x_2, x_1), VSub(y_2, y_1), VSub(z_2, z_1))
    IN  << vx_1, vy_1, vz_1,
           VDivR3(VMul(f.mu_2, VSub(x_2, x_1)), r2),
           VDivR3(VMul(f.mu_2, VSub(y_2, y_1)), r2),
           VDivR3(VMul(f.mu_2, VSub(z_2, z_1)), r2),
           vx_1, vy_2, vz_2,
           VDivR3(VMul(f.mu_1, VSub(x_1, x_2)), r2),
           VDivR3(VMul(f.mu_1, VSub(y_1, y_2)), r2),
           VDivR3(VMul(f.mu_1, VSub(z_1, z_2)), r2) >>

two_body_differential_system_same_mu(f, t, s) ==
    LET x_1 == s[1]   y_1 == s[2]   z_1 == s[3]
        vx_1 == s[4]  vy_1 == s[5]  vz_1 == s[6]
        x_2 == s[7]   y_2 == s[8]   z_2 == s[9]
        vx_2 == s[10] vy_2 == s[11] vz_2 == s[12]
        r2 == SumSq(VSub(x_2, x_1), VSub(y_2, y_1), VSub(z_2, z_1))
    IN  << vx_1, vy_1, vz_1,
           VDivR3(VMul(f.mu_2, VSub(x_2, x_1)), r2),
           VDivR3(VMul(f.mu_2, VSub(y_2, y_1)), r2),
           VDivR3(VMul(f.mu_2, VSub(z_2, z_1)), r2),
           vx_2, vy_2, vz_2,
           VDivR3(VMul(f.mu_2, VSub(x_1, x_2)), r2),
           VDivR3(VMul(f.mu_2, VSub(y_1, y_2)), r2),
           VDivR3(VMul(f.mu_2, VSub(z_1, z_2)), r2) >>

two_body_differential_system(f, t, s) ==
    LET x_1 == s[1]   y_1 == s[2]   z_1 == s[3]
        vx_1 == s[4]  vy_1 == s[5]  vz_1 == s[6]
        x_2 == s[7]   y_2 == s[8]   z_2 == s[9]
        vx_2 == s[10] vy_2 == s[11] vz_2 == s[12]
        \* r ** 2; r ** 3 is formed where it divides
        r2 == SumSq(VSub(x_2, x_1), VSub(y_2, y_1), VSub(z_2, z_1))
    IN  << vx_1, vy_1, vz_1,
           VDivR3(VMul(f.mu_2, VSub(x_2, x_1)), r2),
           VDivR3(VMul(f.mu_2, VSub(y_2, y_1)), r2),
           VDivR3(VMul(f.mu_2, VSub(z_2, z_1)), r2),
           vx_2, vy_2, vz_2,
           VDivR3(VMul(f.mu_1, VSub(x_1, x_2)), r2),
           VDivR3(VMul(f.mu_1, VSub(y_1, y_2)), r2),
           VDivR3(VMul(f.mu_1, VSub(z_1, z_2)), r2) >>

three_body_cr_differential_system(f, t, s) ==
    LET x == s[1]    y == s[2]    z == s[3]
        v_x == s[4]  v_y == s[5]  v_z == s[6]
        omega == f.omega
        dx_1 == VAdd(x, FracTimes(f.pi_2, f.r_12))
        dx_2 == VSub(x, FracTimes(f.pi_1, f.r_12))
        r_1sq == SumSq(dx_1, y, z)
        r_2sq == SumSq(dx_2, y, z)
        g_1 == VDivR3(f.mu_1, r_1sq)
        g_2 == VDivR3(f.mu_2, r_2sq)
    IN  << v_x, v_y, v_z,
           VSub(VSub(VAdd(VMul(VMul(Num(2), omega), v_y), VMul(x, VSquare(omega))),
                     VMul(g_1, dx_1)),
                VMul(g_2, dx_2)),
           VSub(VSub(VAdd(VMul(VMul(Num(-2), omega), v_x), VMul(y, VSquare(omega))),
                     VMul(g_1, y)),
                VMul(g_2, y)),
           VSub(VMul(VNeg(g_1), z), VMul(g_2, z)) >>

three_body_differential_system(f, t, s) ==
    LET x_1 == s[1]   y_1 == s[2]   z_1 == s[3]
        vx_1 == s[4]  vy_1 == s[5]  vz_1 == s[6]
        x_2 == s[7]   y_2 == s[8]   z_2 == s[9]
        vx_2 == s[10] vy_2 == s[11] vz_2 == s[12]
        x_3 == s[13]  y_3 == s[14]  z_3 == s[15]
        vx_3 == s[16] vy_3 == s[17] vz_3 == s[18]
        r_12 == SumSq(VSub(x_2, x_1), VSub(y_2, y_1), VSub(z_2, z_1))
        r_13 == SumSq(VSub(x_3, x_1), VSub(y_3, y_1), VSub(z_3, z_1))
        r_32 == SumSq(VSub(x_3, x_2), VSub(y_3, y_2), VSub(z_3, z_2))
        Pull(mu, d, rr) == VDivR3(VMul(mu, d), rr)
    IN  << vx_1, vy_1, vz_1,
           VAdd(Pull(f.mu_2, VSub(x_2, x_1), r_12), Pull(f.mu_3, VSub(x_3, x_1), r_13)),
           VAdd(Pull(f.mu_2, VSub(y_2, y_1), r_12), Pull(f.mu_3, VSub(y_3, y_1), r_13)),
           VAdd(Pull(f.mu_2, VSub(z_2, z_1), r_12), Pull(f.mu_3, VSub(z_3, z_1), r_13)),
           vx_2, vy_2, vz_2,
           VAdd(Pull(f.mu_1, VSub(x_1, x_2), r_12), Pull(f.mu_3, VSub(x_3, x_2), r_32)),
           VAdd(Pull(f.mu_1, VSub(y_1, y_2), r_12), Pull(f.mu_3, VSub(y_3, y_2), r_32)),
           VAdd(Pull(f.mu_1, VSub(z_1, z_2), r_12), Pull(f.mu_3, VSub(z_3, z_2), r_32)),
           vx_3, vy_3, vz_3,
           VAdd(Pull(f.mu_1, VSub(x_1, x_3), r_13), Pull(f.mu_2, VSub(x_2, x_3), r_32)),
           VAdd(Pull(f.mu_1, VSub(y_1, y_3), r_13), Pull(f.mu_2, VSub(y_2, y_3), r_32)),
           VAdd(Pull(f.mu_1, VSub(z_1, z_3), r_13), Pull(f.mu_2, VSub(z_2, z_3), r_32)) >>

\* the number of names the closure's first line unpacks s into
StateDim(kind) ==
    IF kind = "two_body" THEN 12 ELSE IF kind = "three_body_cr" THEN 6 ELSE 18

\* f(t, s) as rk_45 calls it: a wrong-sized s fails to unpack
differential_system(f, t, s) ==
    IF Len(s) # StateDim(f.kind) THEN [raised |-> "ValueError", v |-> <<>>]
    ELSE [raised |-> "none",
          v |-> IF f.kind = "two_body" THEN two_body_differential_system(f, t, s)
                ELSE IF f.kind = "three_body_cr"
                     THEN three_body_cr_differential_system(f, t, s)
                ELSE three_body_differential_system(f, t, s)]

-----------------------------------------------------------------------------
(* The propagators: what each hands to rk_45, or the exception it raises   *)
(* while it computes the closure's constants                               *)

NoClosure == Closure("none", Num(0), Num(0), Num(0), <<0, 1>>, <<0, 1>>, 0, Num(0))
NoCall ==
    [raised |-> "none", invoked |-> FALSE, f |-> NoClosure, y0 |-> <<>>,
     t0 |-> 0, tf |-> 0, h |-> NoStep, tol |-> 0, beta |-> 0]

\* rk_45(differential_system, initial_conditions, t_init, t_final, step_size,
\*       tolerance, beta)
rk_45_call(f, y0, t0, tf, step, tol, beta) ==
    [raised |-> "none", invoked |-> TRUE, f |-> f, y0 |-> y0,
     t0 |-> t0, tf |-> tf, h |-> step, tol |-> tol, beta |-> beta]

Raise(e) == [NoCall EXCEPT !.raised = e]

\* np.sqrt(grav_constant * (mass_1 + mass_2) / r_12 ** 3) for r_12 # 0
Omega(gm, r_12) ==
    LET r3 == r_12 * r_12 * r_12
    IN  IF gm = 0 THEN Num(0)
        ELSE IF SignInt(gm) * SignInt(r3) < 0 THEN NaN
        ELSE Fin(<<"w", gm * SignInt(gm), r3 * SignInt(r3)>> :> 1)

two_body_propagator_swapped_times(t_init, t_final, mass_1, mass_2, ic, grav_constant, step_size, tolerance, beta) ==
    LET mu_1 == grav_constant * mass_1
        mu_2 == grav_constant * mass_2
    IN  rk_45_call(Closure("two_body", Num(mu_1), Num(mu_2), Num(0),
                           <<0, 1>>, <<0, 1>>, 0, Num(0)),
                   ic, t_final, t_init, step_size, tolerance, beta)

two_body_propagator_no_step(t_init, t_final, mass_1, mass_2, ic, grav_constant, step_size, tolerance, beta) ==
    LET mu_1 == grav_constant * mass_1
        mu_2 == grav_constant * mass_2
    IN  rk_45_call(Closure("two_body", Num(mu_1), Num(mu_2), Num(0),
                           <<0, 1>>, <<0, 1>>, 0, Num(0)),
                   ic, t_init, t_final, NoStep, tolerance, beta)

two_body_propagator(t_init, t_final, mass_1, mass_2, ic, grav_constant, step_size, tolerance, beta) ==
    LET mu_1 == grav_constant * mass_1
        mu_2 == grav_constant * mass_2
    IN  rk_45_call(Closure("two_body", Num(mu_1), Num(mu_2), Num(0),
                           <<0, 1>>, <<0, 1>>, 0, Num(0)),
                   ic, t_init, t_final, step_size, tolerance, beta)

three_body_cr_propagator_swapped_controls(t_init, t_final, mass_1, mass_2, r_12, ic, grav_constant, step_size, tolerance, beta) ==
    LET mu_1 == grav_constant * mass_1
        mu_2 == grav_constant * mass_2
        pi_1 == <<mass_1, mass_1 + mass_2>>
        pi_2 == <<mass_2, mass_1 + mass_2>>
    IN  IF mass_1 + mass_2 = 0 THEN Raise("ZeroDivisionError")
        ELSE IF r_12 = 0 THEN Raise("ZeroDivisionError")
        ELSE rk_45_call(Closure("three_body_cr", Num(mu_1), Num(mu_2), Num(0),
                                pi_1, pi_2, r_12,
                                Omega(grav_constant * (mass_1 + mass_2), r_12)),
                        ic, t_init, t_final, step_size, beta, tolerance)

three_body_cr_propagator(t_init, t_final, mass_1, mass_2, r_12, ic, grav_constant, step_size, tolerance, beta) ==
    LET mu_1 == grav_constant * mass_1
        mu_2 == grav_constant * mass_2
        pi_1 == <<mass_1, mass_1 + mass_2>>
        pi_2 == <<mass_2, mass_1 + mass_2>>
    IN  IF mass_1 + mass_2 = 0 THEN Raise("ZeroDivisionError")
        ELSE IF r_12 = 0 THEN Raise("ZeroDivisionError")
        ELSE rk_45_call(Closure("three_body_cr", Num(mu_1), Num(mu_2), Num(0),
                                pi_1, pi_2, r_12,
                                Omega(grav_constant * (mass_1 + mass_2), r_12)),
                        ic, t_init, t_final, step_size, tolerance, beta)

three_body_propagator(t_init, t_final, mass_1, mass_2, mass_3, ic, grav_constant, step_size, tolerance, beta) ==
    LET mu_1 == grav_constant * mass_1
        mu_2 == grav_constant * mass_2
        mu_3 == grav_constant * mass_3
    IN  rk_45_call(Closure("three_body", Num(mu_1), Num(mu_2), Num(mu_3),
                           <<0, 1>>, <<0, 1>>, 0, Num(0)),
                   ic, t_init, t_final, step_size, tolerance, beta)

Variants == {"two_body", "three_body_cr", "three_body"}

\* the call a caller makes with the parameter set p and the list ic
Propagate(v, p, ic) ==
    IF v = "two_body"
    THEN two_body_propagator(p.t_init, p.t_final, p.mass_1, p.mass_2, ic,
                             p.grav_constant, p.step_size, p.tolerance, p.beta)
    ELSE IF v = "three_body_cr"
    THEN three_body_cr_propagator(p.t_init, p.t_final, p.mass_1, p.mass_2, p.r_12, ic,
                                  p.grav_constant, p.step_size, p.tolerance, p.beta)
    ELSE three_body_propagator(p.t_init, p.t_final, p.mass_1, p.mass_2, p.mass_3, ic,
                               p.grav_constant, p.step_size, p.tolerance, p.beta)

Params(t_init, t_final, mass_1, mass_2, mass_3, r_12, grav_constant, step_size, tolerance, beta) ==
    [t_init |-> t_init, t_final |-> t_final, mass_1 |-> mass_1, mass_2 |-> mass_2,
     mass_3 |-> mass_3, r_12 |-> r_12, grav_constant |-> grav_constant,
     step_size |-> step_size, tolerance |-> tolerance, beta |-> beta]

-----------------------------------------------------------------------------
(* Enumerated inputs.  Times are whole quanta, tolerance and the error     *)
(* estimate share one unit, beta is given in tenths (8 is 0.8).            *)

Coord == -MaxCoord..MaxCoord
Vec3 == Coord \X Coord \X Coord
AxisVec == {<<c, 0, 0>> : c \in Coord}
Origin == <<0, 0, 0>>

\* (mass_1, mass_2, r_12) of the restricted model with whole pi_i * r_12
CRSetups ==
    {m \in (0..2) \X (0..2) \X ((-2)..2) :
        \/ m[1] + m[2] = 0
        \/ (m[2] * m[3]) % (m[1] + m[2]) = 0 /\ (m[1] * m[3]) % (m[1] + m[2]) = 0}

EvalStates(v) ==
    IF v = "two_body"
    THEN {Origin \o v1 \o p2 \o v2 :
            p2 \in Vec3, v1 \in {Origin, <<1, -2, 3>>}, v2 \in {Origin, <<4, 5, -6>>}}
         \cup {Origin}
    ELSE IF v = "three_body_cr"
    THEN {p1 \o v1 : p1 \in Vec3, v1 \in {Origin, <<1, -2, 3>>}} \cup {Origin \o Origin \o Origin}
    ELSE {Origin \o <<1, -2, 3>> \o p2 \o <<4, 5, -6>> \o p3 \o <<-7, 8, 9>> :
            p2 \in Vec3, p3 \in AxisVec}
         \cup {Origin}

EvalParams(v) ==
    IF v = "two_body"
    THEN {Params(0, 1, m1, m2, 0, 0, 1, NoStep, 2, 8) : m1 \in 1..2, m2 \in 1..2}
    ELSE IF v = "three_body_cr"
    THEN {Params(0, 1, m[1], m[2], 0, m[3], 1, NoStep, 2, 8) :
            m \in {x \in CRSetups : x[1] + x[2] # 0 /\ x[3] # 0}}
    ELSE {Params(0, 1, m1, 1, m3, 0, 1, NoStep, 2, 8) : m1 \in 1..2, m3 \in 1..2}

NoDeriv == [raised |-> "none", v |-> <<>>]

RkIdle ==
    /\ t_n = 0 /\ s_n = <<>> /\ h = 0
    /\ time_out = <<>> /\ solution_out = <<>>
    /\ rejections = 0 /\ accepted = 0 /\ error = Num(0) /\ deriv = NoDeriv

NoAppCall == [fn |-> "none", args |-> EmptyC, initial_conditions |-> <<>>]

AppIdle ==
    /\ prop_option = "none" /\ widgets = EmptyC /\ pressed = FALSE
    /\ edits = 0 /\ app_call = NoAppCall /\ app_error = "none"

-----------------------------------------------------------------------------
(* rk_45 (solve_ode_ivp), the adaptive embedded Runge-Kutta solver.  Its    *)
(* file is not among the sources; it is modelled from the design's          *)
(* per-step algorithm.  Time and the step are whole quanta, so the smallest *)
(* positive step is 1.  The tableau is left open by the design: the model   *)
(* evaluates the first stage k1 = f(t_n, s_n) with the code's force model,  *)
(* advances the state by h * k1 in whole units, and takes the error         *)
(* estimate of a trial step from 0..MaxError (any value the embedded pair   *)
(* could report), or nan once a stage derivative is not finite.             *)

\* error estimates of a trial step range over 0..MaxError
MaxError == 3
\* a run is aborted when more than MaxRejections trial steps in a row fail
MaxRejections == 2
\* one adjustment never grows the step by more than MaxGrow times ...
MaxGrow == 4
\* ... nor shrinks it below MinShrinkTenths / 10 of itself
MinShrinkTenths == 1

Min(a, b) == IF a <= b THEN a ELSE b
Max(a, b) == IF a >= b THEN a ELSE b
Abs(n) == IF n < 0 THEN -n ELSE n
Trunc(a, b) == SignInt(a) * (Abs(a) \div b)
ISqrt(n) == CHOOSE r \in 0..n : r * r <= n /\ n < (r + 1) * (r + 1)
Pow5(x) == x * x * x * x * x

\* a basis quantity times its coefficient, in whole units
WholeTerm(k, c) ==
    IF k[1] = "one" THEN c
    ELSE IF k[1] = "r3" THEN Trunc(c, ISqrt(k[2]) * ISqrt(k[2]) * ISqrt(k[2]))
    ELSE IF k[1] = "w" THEN c * ISqrt(k[2] \div k[3])
    ELSE c * (k[2] \div k[3])

RECURSIVE WholeSum(_, _)
WholeSum(S, c) ==
    IF S = {} THEN 0
    ELSE LET k == CHOOSE x \in S : TRUE
         IN  WholeTerm(k, c[k]) + WholeSum(S \ {k}, c)

WholeV(a) == IF a.k = "fin" THEN Num(WholeSum(DOMAIN a.c, a.c)) ELSE a
Whole(a) == Once({WholeV(x) : x \in {a}})

\* the candidate next state of a trial step of size hc from s with first stage k1
Advance(s, hc, k1) == [i \in 1..Len(s) |-> VAdd(s[i], VMul(Num(hc), Whole(k1[i])))]

\* step 7: the trial step never overshoots t_final
ClampStep(hh, t, tf) == Min(hh, tf - t)

\* error <= tolerance; a comparison with nan is false
WithinTolerance(err, tol) == IsPlain(err) /\ IntOf(err) <= tol

\* steps 4 and 8: a fixed step is accepted unconditionally
Accepts(step, err, tol) == step.set \/ WithinTolerance(err, tol)

\* (tolerance / error) ^ (1/5) in tenths, cut off at the largest growth
RootFactor(err, tol) ==
    IF err = 0 THEN 10 * MaxGrow
    ELSE LET S == {x \in 0..(10 * MaxGrow) : Pow5(x) * err <= tol * 100000}
         IN  CHOOSE x \in S : \A y \in S : y <= x

\* step 5: h_new = beta * h * (tolerance / error)^(1/5), kept within the
\* per-adjustment factors and at least one quantum; beta is in tenths
NewStep(hc, err, tol, beta) ==
    IF ~IsPlain(err) THEN hc
    ELSE LET raw == (beta * hc * RootFactor(IntOf(err), tol)) \div 100
         IN  Max(1, Max((hc * MinShrinkTenths) \div 10, Min(raw, hc * MaxGrow)))

RejectionsUnchanged(r) == r

RejectionsAfter(r) == r + 1

\* the failure policy: too many consecutive rejections
NonConverged(r) == r > MaxRejections

-----------------------------------------------------------------------------
(* SpecEval: one evaluation of a force model at an enumerated state *)

InitEval ==
    /\ variant \in Variants
    /\ params \in EvalParams(variant)
    /\ initial_conditions \in EvalStates(variant)
    /\ call = Propagate(variant, params, initial_conditions)
    /\ pc = "eval" /\ raised = "none"
    /\ t_n = params.t_init /\ s_n = NumSeq(initial_conditions) /\ h = 0
    /\ time_out = <<>> /\ solution_out = <<>>
    /\ rejections = 0 /\ accepted = 0 /\ error = Num(0) /\ deriv = NoDeriv
    /\ plot_values = EmptyC
    /\ AppIdle

Evaluate ==
    /\ pc = "eval"
    /\ deriv' = differential_system(call.f, t_n, s_n)
    /\ pc' = "evaluated"
    /\ raised' = deriv'.raised
    /\ UNCHANGED <<variant, params, initial_conditions, call, t_n, s_n, h, time_out,
                   solution_out, rejections, accepted, error, plot_values, appVars>>

NextEval == Evaluate

SpecEval == InitEval /\ [][NextEval]_vars

-----------------------------------------------------------------------------
(* Spec: one propagator call, from the caller's parameters to the           *)
(* dashboard's plot_values                                                 *)

RunTimes == {<<1, 1 + d>> : d \in 0..MaxSpan} \cup {<<2, 1>>}
RunSteps == {NoStep} \cup {Step(x) : x \in 1..MaxSpan}
\* (tolerance, beta in tenths)
RunControls == {<<2, 8>>, <<0, 8>>, <<1, 10>>}

RunParams(v) ==
    IF v = "two_body"
    THEN {Params(tt[1], tt[2], m[1], m[2], 0, 0, 1, st, c[1], c[2]) :
            tt \in RunTimes, st \in RunSteps, c \in RunControls,
            m \in {<<1, 2>>, <<1, 0>>}}
    ELSE IF v = "three_body_cr"
    THEN {Params(tt[1], tt[2], m[1], m[2], 0, m[3], 1, st, c[1], c[2]) :
            tt \in RunTimes, st \in RunSteps, c \in RunControls,
            m \in {<<1, 1, 2>>, <<1, 1, 0>>, <<0, 0, 2>>}}
    ELSE {Params(tt[1], tt[2], m[1], m[2], m[3], 0, 1, st, c[1], c[2]) :
            tt \in RunTimes, st \in RunSteps, c \in RunControls,
            m \in {<<1, 1, 2>>, <<1, 1, 0>>}}

\* initial conditions in the variant's documented layout: one regular
\* configuration and one with two bodies (or the body and a primary) at the
\* same place
RunStates(v) ==
    IF v = "two_body"
    THEN {Origin \o <<1, -2, 3>> \o p2 \o <<4, 5, -6>> : p2 \in {<<1, 0, 0>>, Origin}}
    ELSE IF v = "three_body_cr"
    THEN {p1 \o <<1, -2, 3>> : p1 \in {Origin, <<-1, 0, 0>>}}
    ELSE {<<-1, 0, 0>> \o <<1, -2, 3>> \o <<1, 0, 0>> \o <<4, 5, -6>> \o p3 \o <<-7, 8, 9>> :
            p3 \in {Origin, <<1, 0, 0>>}}

Init ==
    /\ variant \in Variants
    /\ params \in RunParams(variant)
    /\ initial_conditions \in RunStates(variant)
    /\ pc = "start" /\ call = NoCall /\ raised = "none"
    /\ RkIdle
    /\ plot_values = EmptyC
    /\ AppIdle

\* the propagator's body up to its call of rk_45
CallPropagator ==
    /\ pc = "start"
    /\ call' = Propagate(variant, params, initial_conditions)
    /\ raised' = call'.raised
    /\ pc' = IF call'.raised = "none" THEN "rk_45" ELSE "raised"
    /\ UNCHANGED <<variant, params, initial_conditions, rkVars, plot_values, appVars>>

\* rk_45 records the initial condition and picks its first trial step
rk_45_begin ==
    /\ pc = "rk_45"
    /\ t_n' = call.t0
    /\ s_n' = NumSeq(call.y0)
    /\ time_out' = <<call.t0>>
    /\ solution_out' = <<NumSeq(call.y0)>>
    /\ h' \in IF call.h.set THEN {call.h.v} ELSE 1..MaxSpan
    /\ rejections' = 0 /\ accepted' = 0
    /\ pc' = "loop"
    /\ UNCHANGED <<variant, params, initial_conditions, call, raised, error, deriv,
                   plot_values, appVars>>

\* the error estimates a trial step from s with first stage k1 can report;
\* a fixed-step run does not consult the estimate
ErrorEstimates(step, s, k1, old) ==
    IF step.set THEN {old}
    ELSE IF \A i \in 1..Len(s) : IsFinite(s[i]) /\ IsFinite(k1[i])
    THEN {Num(e) : e \in 0..MaxError}
    ELSE {NaN}

\* one trial step, accepted or rejected; hc, k1, y5 are the step's locals,
\* each computed once
rk_45_trial ==
    /\ pc = "loop"
    /\ t_n < call.tf
    /\ \E hc \in {ClampStep(h, t_n, call.tf)} :
       \E k1 \in {differential_system(call.f, t_n, s_n)} :
           IF k1.raised # "none"
           THEN /\ deriv' = k1
                /\ pc' = "raised" /\ raised' = k1.raised
                /\ UNCHANGED <<t_n, s_n, h, time_out, solution_out, rejections,
                               accepted, error>>
           ELSE \E e \in ErrorEstimates(call.h, s_n, k1.v, error) :
                \E y5 \in {Advance(s_n, hc, k1.v)} :
                \E failed \in {RejectionsAfter(rejections)} :
                      /\ deriv' = k1
                      /\ error' = e
                      /\ IF Accepts(call.h, e, call.tol)
                         THEN /\ t_n' = t_n + hc
                              /\ s_n' = y5
                              /\ time_out' = Append(time_out, t_n + hc)
                              /\ solution_out' = Append(solution_out, y5)
                              /\ accepted' = accepted + 1
                              /\ rejections' = 0
                              /\ h' = IF call.h.set THEN h
                                      ELSE NewStep(hc, e, call.tol, call.beta)
                              /\ pc' = "loop" /\ raised' = raised
                         ELSE /\ rejections' = failed
                              /\ h' = NewStep(hc, e, call.tol, call.beta)
                              /\ pc' = IF NonConverged(failed) THEN "raised" ELSE "loop"
                              /\ raised' = IF NonConverged(failed)
                                           THEN "NonConvergence" ELSE raised
                              /\ UNCHANGED <<t_n, s_n, time_out, solution_out, accepted>>
    /\ UNCHANGED <<variant, params, initial_conditions, call, plot_values, appVars>>

\* t_final is reached: the propagator returns solution_out, time_out
rk_45_return ==
    /\ pc = "loop"
    /\ t_n >= call.tf
    /\ pc' = "returned"
    /\ UNCHANGED <<variant, params, initial_conditions, call, raised, rkVars,
                   plot_values, appVars>>

plot_vars_short(v) ==
    IF v = "two_body"
    THEN <<"t", "x_1", "y_1", "z_1", "vx_1", "vy_1", "vz_1",
           "x_2", "y_2", "z_2", "vx_2", "vy_2">>
    ELSE IF v = "three_body_cr"
    THEN <<"t", "x", "y", "z", "v_x", "v_y", "v_z">>
    ELSE <<"t", "x_1", "y_1", "z_1", "vx_1", "vy_1", "vz_1",
           "x_2", "y_2", "z_2", "vx_2", "vy_2", "vz_2",
           "x_3", "y_3", "z_3", "vx_3", "vy_3", "vz_3">>

plot_vars(v) ==
    IF v = "two_body"
    THEN <<"t", "x_1", "y_1", "z_1", "vx_1", "vy_1", "vz_1",
           "x_2", "y_2", "z_2", "vx_2", "vy_2", "vz_2">>
    ELSE IF v = "three_body_cr"
    THEN <<"t", "x", "y", "z", "v_x", "v_y", "v_z">>
    ELSE <<"t", "x_1", "y_1", "z_1", "vx_1", "vy_1", "vz_1",
           "x_2", "y_2", "z_2", "vx_2", "vy_2", "vz_2",
           "x_3", "y_3", "z_3", "vx_3", "vy_3", "vz_3">>

\* s_out.T[i], for i counted from 1
Column(s_out, i) == [r \in 1..Len(s_out) |-> s_out[r][i]]

\* plot_values = {'t': t_out}, then one entry per column of s_out
AssemblePlotValues ==
    /\ pc = "returned"
    /\ LET names == plot_vars(variant)
           n == Len(solution_out[1])
       IN  IF n + 1 > Len(names)
           THEN /\ pc' = "raised" /\ raised' = "IndexError"
                /\ UNCHANGED plot_values
           ELSE /\ plot_values' = [name \in {names[i] : i \in 1..(n + 1)} |->
                                     IF name = "t" THEN time_out
                                     ELSE Column(solution_out,
                                            (CHOOSE i \in 2..(n + 1) : names[i] = name) - 1)]
                /\ pc' = "plotted" /\ raised' = raised
    /\ UNCHANGED <<variant, params, initial_conditions, call, rkVars, appVars>>

Next ==
    \/ CallPropagator
    \/ rk_45_begin
    \/ rk_45_trial
    \/ rk_45_return
    \/ AssemblePlotValues

Spec == Init /\ [][Next]_vars

\* the call runs to its end: nothing else is scheduled
LiveSpec == Spec /\ WF_vars(Next)

-----------------------------------------------------------------------------
(* SpecDash: the dashboard's Orbit Propagator module.  Streamlit runs the   *)
(* script anew after every change of a widget; a widget keeps what the user *)
(* typed for as long as it is drawn with the same label and default.  A     *)
(* number is a decimal m * 10^e; a text is such a number as typed, or       *)
(* something float() cannot read.                                          *)

Dec(m, e) == [m |-> m, e |-> e]
Txt(m, e) == [ok |-> TRUE, m |-> m, e |-> e]
Garbage == [ok |-> FALSE, m |-> 0, e |-> 0]

RECURSIVE Normal(_, _)
Normal(m, e) ==
    IF m = 0 THEN Dec(0, 0)
    ELSE IF m % 10 = 0 THEN Normal(m \div 10, e + 1)
    ELSE Dec(m, e)

\* float(text): the number read, or ValueError
float(x) ==
    IF x.ok THEN [raised |-> "none", v |-> Normal(x.m, x.e)]
    ELSE [raised |-> "ValueError", v |-> Dec(0, 0)]

\* the text a text_input shows for the default float(v)
str(d) == Txt(d.m, d.e)

props == <<"General Two-Body", "Circular Restricted Three-Body", "General Three-Body">>

\* the dictionaries as written, in insertion order: <<key, value>>
prop_setup_defaults(option) ==
    IF option = "General Two-Body"
    THEN << <<"t_init", Dec(0, 0)>>, <<"t_final", Dec(48, 1)>>,
            <<"mass_1", Dec(1, 26)>>, <<"mass_2", Dec(1, 26)>>,
            <<"grav_constant", Dec(667259, -16)>>,
            <<"tolerance", Dec(5, 2)>>, <<"beta", Dec(8, -1)>> >>
    ELSE IF option = "Circular Restricted Three-Body"
    THEN << <<"t_init", Dec(0, 0)>>, <<"t_final", Dec(273619296, -3)>>,
            <<"mass_1", Dec(5974, 21)>>, <<"mass_2", Dec(7348, 19)>>,
            <<"r_12", Dec(3844, 2)>>,
            <<"grav_constant", Dec(66759, -24)>>,
            <<"tolerance", Dec(1, 1)>>, <<"beta", Dec(8, -1)>> >>
    ELSE << <<"t_init", Dec(0, 0)>>, <<"t_final", Dec(7, 0)>>,
            <<"mass_1", Dec(1, 0)>>, <<"mass_2", Dec(1, 0)>>, <<"mass_3", Dec(1, 0)>>,
            <<"grav_constant", Dec(1, 0)>>,
            <<"tolerance", Dec(5, -3)>>, <<"beta", Dec(7, -1)>> >>

prop_ic_defaults(option) ==
    IF option = "General Two-Body"
    THEN << <<"x_1", Dec(0, 0)>>, <<"y_1", Dec(0, 0)>>, <<"z_1", Dec(0, 0)>>,
            <<"vx_1", Dec(1, 4)>>, <<"vy_1", Dec(2, 4)>>, <<"vz_1", Dec(3, 4)>>,
            <<"x_2", Dec(3, 6)>>, <<"y_2", Dec(0, 0)>>, <<"z_2", Dec(0, 0)>>,
            <<"vx_2", Dec(0, 0)>>, <<"vy_2", Dec(4, 4)>>, <<"vz_2", Dec(0, 0)>> >>
    ELSE IF option = "Circular Restricted Three-Body"
    THEN << <<"x", Dec(-4671, 0)>>, <<"y", Dec(-6578, 0)>>, <<"z", Dec(0, 0)>>,
            <<"v_x", Dec(102565702, -7)>>, <<"v_y", Dec(-373308146, -8)>>,
            <<"v_z", Dec(0, 0)>> >>
    ELSE << <<"x_1", Dec(-1, 0)>>, <<"y_1", Dec(0, 0)>>, <<"z_1", Dec(0, 0)>>,
            <<"vx_1", Dec(39295, -5)>>, <<"vy_1", Dec(9758, -5)>>, <<"vz_1", Dec(0, 0)>>,
            <<"x_2", Dec(1, 0)>>, <<"y_2", Dec(0, 0)>>, <<"z_2", Dec(0, 0)>>,
            <<"vx_2", Dec(39295, -5)>>, <<"vy_2", Dec(9758, -5)>>, <<"vz_2", Dec(0, 0)>>,
            <<"x_3", Dec(0, 0)>>, <<"y_3", Dec(0, 0)>>, <<"z_3", Dec(0, 0)>>,
            <<"vx_3", Dec(-7859, -4)>>, <<"vy_3", Dec(-19516, -5)>>, <<"vz_3", Dec(0, 0)>> >>

Keys(d) == [i \in 1..Len(d) |-> d[i][1]]
KeySet(d) == {d[i][1] : i \in 1..Len(d)}
Get(d, key) == d[CHOOSE i \in 1..Len(d) : d[i][1] = key][2]

\* a widget is known by its label and its default
WidgetId(label, default) == <<label, default.m, default.e>>

\* the widgets the sidebar draws for a propagator
Drawn(option) ==
    LET d == prop_setup_defaults(option) \o prop_ic_defaults(option)
    IN  {WidgetId(d[i][1], d[i][2]) : i \in 1..Len(d)}

\* st.sidebar.text_input(key, float(default)): what the user typed there, or
\* the default's text
text_input(w, key, default) ==
    IF WidgetId(key, default) \in DOMAIN w THEN w[WidgetId(key, default)]
    ELSE str(default)

\* prop_setup after the two sidebar loops: the 'Setup' loop replaces each
\* default by its input's text, the 'Initial Conditions' loop adds one entry
\* of prop_setup per key of prop_ic
prop_setup_texts(option, w) ==
    LET setup == prop_setup_defaults(option)
        ic == prop_ic_defaults(option)
    IN  [key \in KeySet(setup) \cup KeySet(ic) |->
            IF key \in KeySet(ic) THEN text_input(w, key, Get(ic, key))
            ELSE text_input(w, key, Get(setup, key))]

\* prop_ic when the propagator is called: the loops above never assign to it
prop_ic_at_call(option, w) ==
    LET ic == prop_ic_defaults(option)
    IN  [key \in KeySet(ic) |-> str(Get(ic, key))]

\* the keyword arguments the call takes from prop_setup
ArgNames(option) == KeySet(prop_setup_defaults(option))

\* one run of the script: the call made under 'if pressed', or the exception
Script(option, w, on) ==
    LET texts == prop_setup_texts(option, w)
        ictexts == prop_ic_at_call(option, w)
        ickeys == Keys(prop_ic_defaults(option))
    IN  IF ~on THEN [error |-> "none", call |-> NoAppCall]
        ELSE IF \E key \in DOMAIN texts : float(texts[key]).raised # "none"
        THEN [error |-> "ValueError", call |-> NoAppCall]
        ELSE [error |-> "none",
              call |-> [fn |-> option,
                        args |-> [key \in ArgNames(option) |-> float(texts[key]).v],
                        initial_conditions |->
                            [i \in 1..Len(ickeys) |-> float(ictexts[ickeys[i]]).v]]]

UserTexts == {Txt(7, 0), Txt(70, -1), Garbage}

RunIdle ==
    /\ pc = "app" /\ variant = "none"
    /\ params = Params(0, 0, 0, 0, 0, 0, 0, NoStep, 0, 0)
    /\ initial_conditions = <<>> /\ call = NoCall /\ raised = "none"

InitDash ==
    /\ RunIdle /\ RkIdle /\ plot_values = EmptyC
    /\ prop_option = props[1]
    /\ widgets = EmptyC /\ pressed = FALSE /\ edits = 0
    /\ app_call = NoAppCall /\ app_error = "none"

Rerun ==
    /\ app_call' = Script(prop_option', widgets', pressed').call
    /\ app_error' = Script(prop_option', widgets', pressed').error
    /\ UNCHANGED <<runVars, rkVars, plot_values>>

\* the user picks a propagator; inputs that are no longer drawn are forgotten
ChoosePropagator ==
    /\ \E o \in {props[i] : i \in 1..Len(props)} :
          /\ o # prop_option
          /\ prop_option' = o
          /\ widgets' = [id \in DOMAIN widgets \cap Drawn(o) |-> widgets[id]]
    /\ UNCHANGED <<pressed, edits>>
    /\ Rerun

\* the user types into one of the sidebar's inputs
EditInput ==
    /\ edits < MaxEdits
    /\ \E id \in Drawn(prop_option), x \in UserTexts :
          widgets' = [j \in DOMAIN widgets \cup {id} |-> IF j = id THEN x ELSE widgets[j]]
    /\ edits' = edits + 1
    /\ UNCHANGED <<prop_option, pressed>>
    /\ Rerun

\* the user checks or unchecks 'Calculate'
ToggleCalculate ==
    /\ pressed' = ~pressed
    /\ UNCHANGED <<prop_option, widgets, edits>>
    /\ Rerun

NextDash == ChoosePropagator \/ EditInput \/ ToggleCalculate

SpecDash == InitDash /\ [][NextDash]_vars

-----------------------------------------------------------------------------
(* Claims about the force models, under SpecEval *)

Bodies(v) == IF v = "two_body" THEN 1..2 ELSE IF v = "three_body_cr" THEN 1..1 ELSE 1..3
DocDim(v) == 6 * Cardinality(Bodies(v))
Pos(s, b) == <<s[6 * (b - 1) + 1], s[6 * (b - 1) + 2], s[6 * (b - 1) + 3]>>
SepSq(a, b) == SumSq(VSub(a[1], b[1]), VSub(a[2], b[2]), VSub(a[3], b[3]))

\* the squared separations the variant's accelerations divide by
RequiredSeparations(v, f, s) ==
    IF v = "three_body_cr"
    THEN {SepSq(Pos(s, 1), <<VNeg(FracTimes(f.pi_2, f.r_12)), Num(0), Num(0)>>),
          SepSq(Pos(s, 1), <<FracTimes(f.pi_1, f.r_12), Num(0), Num(0)>>)}
    ELSE {SepSq(Pos(s, x[1]), Pos(s, x[2])) :
            x \in {y \in Bodies(v) \X Bodies(v) : y[1] < y[2]}}

Singular(v, f, s) == \E d \in RequiredSeparations(v, f, s) : IsZero(d)
Evaluated == pc = "evaluated" /\ Len(s_n) = DocDim(variant)

\* C7: for each force model, evaluate(t, state) at a state with nonzero
\* separations returns a vector as long as the state (12, 6 or 18), whose
\* position slots hold the state's velocity components unchanged.
C7_DerivativeShape ==
    (Evaluated /\ ~Singular(variant, call.f, s_n)) =>
        /\ deriv.raised = "none"
        /\ Len(deriv.v) = DocDim(variant)
        /\ \A b \in Bodies(variant) : \A i \in 1..3 :
              deriv.v[6 * (b - 1) + i] = s_n[6 * (b - 1) + 3 + i]

C7_Witness ==
    /\ Evaluated /\ variant = "two_body" /\ ~Singular(variant, call.f, s_n)
    /\ s_n[4] # s_n[10] /\ ~IsZero(s_n[10])
    /\ deriv.v[7] = s_n[10]

\* C8: for the two-body model at a state with nonzero separation, the
\* accelerations satisfy mass_1*a1 + mass_2*a2 = 0 in each of x, y and z
\* (the rate of change of total linear momentum is zero).
C8_MomentumRate ==
    (Evaluated /\ variant = "two_body" /\ ~Singular(variant, call.f, s_n)) =>
        \A i \in 1..3 :
            VAdd(VMul(Num(params.mass_1), deriv.v[3 + i]),
                 VMul(Num(params.mass_2), deriv.v[9 + i])) = Num(0)

C8_Witness ==
    /\ Evaluated /\ variant = "two_body" /\ ~Singular(variant, call.f, s_n)
    /\ params.mass_1 # params.mass_2
    /\ \A i \in 1..3 : IsFinite(deriv.v[3 + i]) /\ ~IsZero(deriv.v[3 + i])

AllFinite(q) == \A i \in 1..Len(q) : IsFinite(q[i])

\* C3: evaluating a force model at a state where a required separation is
\* exactly zero raises a singularity error; no derivative vector with an
\* infinite or undefined entry is returned, and no such value is recorded in
\* a trajectory.
C3_SingularityRaises ==
    /\ (Evaluated /\ Singular(variant, call.f, s_n)) => deriv.raised = "SingularityError"
    /\ AllFinite(deriv.v)
    /\ \A r \in 1..Len(solution_out) : AllFinite(solution_out[r])

-----------------------------------------------------------------------------
(* Claims about a propagation run, under Spec and LiveSpec *)

Span == params.t_final - params.t_init
InRk == pc \in {"loop", "returned", "plotted"}
Returned == pc \in {"returned", "plotted"}
Increasing(q) == \A i \in 1..(Len(q) - 1) : q[i] < q[i + 1]

\* C1: in a run with t_final > t_init, adaptive or fixed-step, the sample
\* times are strictly increasing, the first sample is (t_init, initial
\* conditions), no step advances t past t_final, and the last sample of the
\* returned trajectory has time exactly t_final.
C1_SampleTimes ==
    (Span > 0 /\ InRk) =>
        /\ time_out[1] = params.t_init
        /\ solution_out[1] = NumSeq(initial_conditions)
        /\ Increasing(time_out)
        /\ t_n <= params.t_final
        /\ Returned => time_out[Len(time_out)] = params.t_final

C1_Witness ==
    /\ Returned /\ Span > 0 /\ ~params.step_size.set
    /\ Len(time_out) >= 3
    /\ time_out[Len(time_out)] = params.t_final

ValidParams(v, p, ic) ==
    /\ Len(ic) = DocDim(v)
    /\ p.t_final > p.t_init
    /\ p.tolerance > 0
    /\ 0 < p.beta /\ p.beta < 10
    /\ p.mass_1 > 0 /\ p.mass_2 > 0
    /\ v = "three_body" => p.mass_3 > 0
    /\ v = "three_body_cr" => p.r_12 > 0

\* C2: a propagator given an invalid parameter set (t_final <= t_init,
\* tolerance <= 0, beta outside (0,1), a mass <= 0, r_12 <= 0) rejects it with
\* a validation error before the integrator is invoked or the force model is
\* evaluated.
C2_ValidationRejects ==
    (pc # "start" /\ ~ValidParams(variant, params, initial_conditions)) =>
        /\ raised = "ValidationError"
        /\ ~call.invoked
        /\ deriv = NoDeriv

CeilDiv(a, b) == (a + b - 1) \div b

FixedRun == params.step_size.set /\ params.step_size.v > 0 /\ Span > 0

UniformIntervals(q, hh) ==
    /\ \A i \in 1..(Len(q) - 2) : q[i + 1] - q[i] = hh
    /\ Len(q) >= 2 => q[Len(q)] - q[Len(q) - 1] \in 1..hh

C6_RowAligned ==
    /\ InRk =>
        /\ Len(solution_out) = Len(time_out)
        /\ Len(time_out) = 1 + accepted
        /\ \A r \in 1..Len(solution_out) : Len(solution_out[r]) = DocDim(variant)
    /\ raised # "IndexError"
    /\ pc = "plotted" =>
        /\ Cardinality(DOMAIN plot_values) = DocDim(variant) + 1
        /\ \A name \in DOMAIN plot_values : Len(plot_values[name]) = Len(time_out)

C6_Witness ==
    /\ pc = "plotted" /\ variant = "two_body" /\ ~params.step_size.set
    /\ accepted >= 2
    /\ Len(plot_values["vz_2"]) = 1 + accepted

AdaptiveTrial ==
    /\ pc = "loop" /\ ~params.step_size.set
    /\ accepted' # accepted \/ rejections' # rejections \/ pc' = "raised"
    /\ deriv'.raised = "none"

\* C9: in adaptive mode a trial step is accepted if and only if its error
\* estimate is <= tolerance; a rejected trial leaves t_n, s_n and the
\* recorded trajectory unchanged and changes only the trial step size (and
\* the count of rejections), so the next trial starts from the same point.
C9_RejectionKeepsState ==
    [][AdaptiveTrial =>
        /\ (accepted' = accepted + 1) <=> WithinTolerance(error', params.tolerance)
        /\ WithinTolerance(error', params.tolerance) =>
              /\ t_n' > t_n
              /\ time_out' = Append(time_out, t_n')
              /\ solution_out' = Append(solution_out, s_n')
        /\ ~WithinTolerance(error', params.tolerance) =>
              /\ rejections' = rejections + 1
              /\ UNCHANGED <<t_n, s_n, time_out, solution_out, accepted>>
      ]_vars

C9_Witness ==
    /\ pc = "loop" /\ ~params.step_size.set /\ variant = "three_body_cr"
    /\ accepted >= 1 /\ rejections >= 1
    /\ ~WithinTolerance(error, params.tolerance)
    /\ s_n # NumSeq(initial_conditions)

-----------------------------------------------------------------------------
(* Claim about the dashboard, under SpecDash *)

\* C10: once 'Calculate' is checked, the initial_conditions list passed to
\* the selected propagator holds, in the layout's order, the values entered
\* in the 'Initial Conditions' inputs, and the setup arguments hold the values
\* entered in the 'Setup' inputs, whatever edits were made.
C10_CallUsesInputs ==
    (pressed /\ app_call.fn # "none") =>
        LET setup == prop_setup_defaults(prop_option)
            ic == prop_ic_defaults(prop_option)
        IN  /\ app_call.fn = prop_option
            /\ Len(app_call.initial_conditions) = Len(ic)
            /\ \A i \in 1..Len(ic) :
                  app_call.initial_conditions[i]
                      = float(text_input(widgets, ic[i][1], ic[i][2])).v
            /\ \A key \in KeySet(setup) :
                  app_call.args[key] = float(text_input(widgets, key, Get(setup, key))).v

=============================================================================
